---------------------------- MODULE Spec2Model ----------------------------
(***************************************************************************)
(* A model of prcadmin.py: the crawl of a tree of listing pages by a pool  *)
(* of asyncio worker tasks (worker), the extraction of division records    *)
(* and sub-page links from one page (analyze_page), the csv writer task    *)
(* (writer) and the driver that joins both queues (run_queue).             *)
(*                                                                         *)
(* Text (urls, hrefs, cell text) is a sequence of one-character strings.   *)
(* A page body is what BeautifulSoup answers about it: whether the literal *)
(* "jsjiami.com.v6" occurs in it, and its <tr> elements in document order, *)
(* each with its class and its <td> cells.                                 *)
(***************************************************************************)
EXTENDS Integers, Sequences, FiniteSets, Bags, TLC

VARIABLES
    web,          \* the site: url -> page body served with a 2xx status
    faulty,       \* the set of urls whose fetch always raises ClientError
    netfaults,    \* the kinds of transient fetch fault the network injects
    budget,       \* how many more fetch faults the network injects
    ntasks,       \* run_queue's ntasks argument
    queue,        \* run_queue's queue (the Frontier): its deque of urls
    qUnfinished,  \* queue._unfinished_tasks
    queue_writer, \* run_queue's queue_writer: its deque of divisions
    wUnfinished,  \* queue_writer._unfinished_tasks
    pc,           \* where each worker task stands in worker/analyze_page
    url,          \* each worker's local url
    divisions,    \* each worker's divisions still to be put on queue_writer
    subpages,     \* each worker's subpages still to be put on queue
    backoff,      \* the argument of the asyncio.sleep a worker is in
    fetched,      \* history: what each worker's last fetch came to
    wpc,          \* where the writer task stands
    division,     \* the writer's local division
    csvfile,      \* the rows written to the csv file, the header first
    t_scanned,    \* t_scanned.n
    t_saved,      \* t_saved.n
    dpc,          \* where run_queue stands
    nput,         \* history: url -> times it was put on queue
    nget,         \* history: url -> times it was taken from queue
    ndone,        \* history: url -> times task_done was called for it
    published     \* history: the bag of divisions put on queue_writer

vars == <<web, faulty, netfaults, budget, ntasks, queue, qUnfinished,
          queue_writer, wUnfinished, pc, url, divisions, subpages, backoff,
          fetched, wpc, division, csvfile, t_scanned, t_saved, dpc, nput, nget,
          ndone, published>>

\* ------------------------------------------------------------------ bounds

\* The largest pool size tried (ntasks ranges over 0..MaxTasks).
MaxTasks == 2
\* The number of transient fetch faults the network may inject in one run.
MaxFaults == 1
\* The number of times the fetch of a permanently faulty url is let fail.
MaxRetries == 2
\* The longest file-name stem of a province link that is tried.
MaxStem == 3
\* The largest number of rows of the pages extraction is tried on.
MaxRows == 2

\* -------------------------------------------------------- program constants

\* "0" * 10 (the zeros appended to a province link's file-name stem).
PadZeros == 10
\* asyncio.sleep(5) after aiohttp.ClientError.
ErrorSleep == 5
\* asyncio.sleep(60) after the "jsjiami.com.v6" marker.
LimitSleep == 60

\* -------------------------------------------------------------------- text

Max(S) == CHOOSE x \in S : \A y \in S : y <= x
Min(S) == CHOOSE x \in S : \A y \in S : x <= y

\* The 1-based positions of character c in s.
Positions(s, c) == {i \in 1..Len(s) : s[i] = c}

\* s.split(c)[0] for a one-character separator c: the text before the
\* first c, the whole text when c does not occur.
FirstPiece(s, c) ==
    IF Positions(s, c) = {} THEN s ELSE SubSeq(s, 1, Min(Positions(s, c)) - 1)

\* s.split(c)[-1]: the text after the last c, the whole text when c does
\* not occur.
LastPiece(s, c) ==
    IF Positions(s, c) = {} THEN s ELSE SubSeq(s, Max(Positions(s, c)) + 1, Len(s))

\* "0" * n
Zeros(n) == [i \in 1..n |-> "0"]

IsSpace(c) == c = " "

\* str.strip(): the text without its leading and trailing whitespace.
Strip(s) ==
    IF \A i \in 1..Len(s) : IsSpace(s[i]) THEN <<>>
    ELSE SubSeq(s, Min({i \in 1..Len(s) : ~IsSpace(s[i])}),
                   Max({i \in 1..Len(s) : ~IsSpace(s[i])}))

\* -------------------------------------------------------------------- urls

\* urllib.parse: a reference has a scheme when a ":" comes before any "/".
HasScheme(ref) ==
    /\ Positions(ref, ":") # {}
    /\ Min(Positions(ref, ":")) > 1
    /\ \A i \in Positions(ref, "/") : Min(Positions(ref, ":")) < i

\* scheme://netloc of an absolute url: everything before the third "/".
Origin(base) ==
    LET sl == Positions(base, "/")
    IN  IF Cardinality(sl) < 3 THEN base
        ELSE LET third == Min(sl \ {Min(sl), Min(sl \ {Min(sl)})})
             IN  SubSeq(base, 1, third - 1)

\* The url up to and including its last "/" (the directory a relative
\* reference is resolved in).
BaseDir(base) ==
    LET sl == Positions(base, "/")
    IN  IF sl = {} THEN <<>> ELSE SubSeq(base, 1, Max(sl))

\* urllib.parse.urljoin(base, ref) for references without "." and ".."
\* segments, query or fragment: an empty reference is the base, a reference
\* with a scheme stands as it is, a reference that starts with "/" replaces
\* the base's path, any other replaces the base's last path segment.
urljoin(base, ref) ==
    IF ref = <<>> THEN base
    ELSE IF HasScheme(ref) THEN ref
    ELSE IF ref[1] = "/" THEN Origin(base) \o ref
    ELSE BaseDir(base) \o ref

\* -------------------------------------------------------------- extraction

\* The levels analyze_page tries, in its order.
AdminTypes == <<"province", "city", "county", "town", "village">>

\* One <td>: its text, whether it holds an <a>, whether that <a> has an
\* href attribute, and the attribute's value.
Td(text, hasA, hasHref, href) ==
    [text |-> text, hasA |-> hasA, hasHref |-> hasHref, href |-> href]
\* A cell whose <a href=...> wraps its text.
Linked(text, href) == Td(text, TRUE, TRUE, href)
\* A cell of plain text.
Plain(text) == Td(text, FALSE, FALSE, <<>>)
\* One <tr class=cls> with its cells.
Tr(cls, tds) == [cls |-> cls, tds |-> tds]
\* A page body: marker says that "jsjiami.com.v6" occurs in it.
Html(marker, trs) == [marker |-> marker, trs |-> trs]

\* bs4_obj.find_all("tr", class_=admin_type + "tr"): the rows of that
\* class, in document order.
find_all_tr(html, admin_type) ==
    SelectSeq(html.trs, LAMBDA tr : tr.cls = admin_type \o "tr")

\* FirstLevel by the page instead of by the tuple of levels: the level of
\* the first row of the page that has a level class.
FirstLevel_Document(html) ==
    LET lrows == {i \in 1..Len(html.trs) :
                     \E k \in 1..Len(AdminTypes) : html.trs[i].cls = AdminTypes[k] \o "tr"}
    IN  IF lrows = {} THEN 0
        ELSE CHOOSE k \in 1..Len(AdminTypes) :
                 html.trs[Min(lrows)].cls = AdminTypes[k] \o "tr"

\* The for/else of analyze_page: the index of the first level with a row,
\* 0 when no level has one.
FirstLevel(html) ==
    LET hit == {k \in 1..Len(AdminTypes) : find_all_tr(html, AdminTypes[k]) # <<>>}
    IN  IF hit = {} THEN 0 ELSE Min(hit)

\* td.find("a").get("href") raises AttributeError when the cell has no <a>
\* (find answers None) or the <a> no href (get answers None, and None has
\* no split).
ProvinceCellRaises(td) == ~td.hasA \/ ~td.hasHref

\* td.find("a").get("href").split("/")[-1].split(".")[0] + "0" * 10
ProvinceCode(href) == FirstPiece(LastPiece(href, "/"), ".") \o Zeros(PadZeros)

\* HasLink that asks for the <a> only: tds[0].find("a")
HasLink_AnyA(td) == td.hasA

\* tds[0].find("a") and tds[0].find("a").get("href")
HasLink(td) == td.hasA /\ td.hasHref /\ td.href # <<>>

\* The inner loop over the cells of a province row, its divisions: one
\* (code, name, level) for every cell.
ProvinceDivisions(tds) ==
    [i \in 1..Len(tds) |-> <<ProvinceCode(tds[i].href), tds[i].text, "province">>]

\* The inner loop over the cells of a province row, its subpages: the href
\* of every cell.
ProvinceSubpages(tds) == [i \in 1..Len(tds) |-> tds[i].href]

\* The division of a row of a level other than province: the code is the
\* first cell's text, the name the last cell's.
OtherDivision(tr, admin_type) ==
    <<tr.tds[1].text, tr.tds[Len(tr.tds)].text, admin_type>>

\* The subpage of a row of a level other than province, when its first
\* cell holds a link.
OtherSubpages(tr) == IF HasLink(tr.tds[1]) THEN <<tr.tds[1].href>> ELSE <<>>

\* Whether the loop body raises on this row: AttributeError on a province
\* cell without a link, IndexError on a row of another level without cells.
RowRaises(tr, admin_type) ==
    IF admin_type = "province"
    THEN \E i \in 1..Len(tr.tds) : ProvinceCellRaises(tr.tds[i])
    ELSE tr.tds = <<>>

RECURSIVE DivisionsTo(_, _, _)
\* The divisions after the first k of the matched rows (for rows none of
\* which raises).
DivisionsTo(trs, admin_type, k) ==
    IF k = 0 THEN <<>>
    ELSE DivisionsTo(trs, admin_type, k - 1)
         \o (IF admin_type = "province" THEN ProvinceDivisions(trs[k].tds)
             ELSE <<OtherDivision(trs[k], admin_type)>>)

RECURSIVE SubpagesTo(_, _, _)
\* The subpages after the first k of the matched rows.
SubpagesTo(trs, admin_type, k) ==
    IF k = 0 THEN <<>>
    ELSE SubpagesTo(trs, admin_type, k - 1)
         \o (IF admin_type = "province" THEN ProvinceSubpages(trs[k].tds)
             ELSE OtherSubpages(trs[k]))

\* The loop over the matched rows: its two lists.
Divisions(trs, admin_type) == DivisionsTo(trs, admin_type, Len(trs))
Subpages(trs, admin_type) == SubpagesTo(trs, admin_type, Len(trs))

\* subpages = [urllib.parse.urljoin(url, subpage) for subpage in subpages]
JoinAll(u, subs) == [i \in 1..Len(subs) |-> urljoin(u, subs[i])]

\* What analyze_page returns, or that it raises, once the rows trs of
\* level admin_type are found.
ExtractRows(trs, admin_type, u) ==
    IF \E i \in 1..Len(trs) : RowRaises(trs[i], admin_type)
    THEN [raised |-> TRUE, divisions |-> <<>>, subpages |-> <<>>]
    ELSE [raised    |-> FALSE,
          divisions |-> Divisions(trs, admin_type),
          subpages  |-> JoinAll(u, Subpages(trs, admin_type))]

\* Extract with a page without rows of any level taken for a failed fetch:
\* the url is handed back for a retry.
Extract_LeafRetried(html, u) ==
    IF FirstLevel(html) = 0
    THEN [raised |-> FALSE, divisions |-> <<>>, subpages |-> <<u>>]
    ELSE ExtractRows(find_all_tr(html, AdminTypes[FirstLevel(html)]),
                     AdminTypes[FirstLevel(html)], u)

\* analyze_page from the parse on, for a body without the marker.
Extract(html, u) ==
    IF FirstLevel(html) = 0
    THEN [raised |-> FALSE, divisions |-> <<>>, subpages |-> <<>>]
    ELSE ExtractRows(find_all_tr(html, AdminTypes[FirstLevel(html)]),
                     AdminTypes[FirstLevel(html)], u)

\* ---------------------------------------------------------------- the site

\* Text written as a tuple of characters.
TopUrl == <<"h", "t", "t", "p", ":", "/", "/", "s", "/", "y", "/">>
U11 == TopUrl \o <<"1", "1", ".", "h", "t", "m", "l">>
U12 == TopUrl \o <<"1", "2", ".", "h", "t", "m", "l">>
U1101 == TopUrl \o <<"1", "1", "/", "1", "1", "0", "1", ".", "h", "t", "m", "l">>
H11 == <<"1", "1", ".", "h", "t", "m", "l">>
H12 == <<"1", "2", ".", "h", "t", "m", "l">>
H1101 == <<"1", "1", "/", "1", "1", "0", "1", ".", "h", "t", "m", "l">>
\* The same page by a reference from the site's root.
R1101 == <<"/", "y", "/">> \o H1101
C1101 == <<"1", "1", "0", "1">> \o Zeros(8)
C1102 == <<"1", "1", "0", "2">> \o Zeros(8)
C1201 == <<"1", "2", "0", "1">> \o Zeros(8)
NameBJ == <<"B", "J">>
\* A name as the site prints it, with whitespace around it.
NameBJCity == <<" ", "B", "C", " ">>
NameTJ == <<"T", "J">>
NameX == <<"X">>

\* A page without any row of a level class (a leaf page).
LeafPage == Html(FALSE, <<Tr("head", <<Plain(NameX)>>)>>)
\* The body of a response with a status other than 2xx (an error page).
ErrorPage == Html(FALSE, <<>>)

\* Root (one province cell) -> city page (one row) -> leaf page.
ChainSite ==
    (TopUrl :> Html(FALSE, <<Tr("provincetr", <<Linked(NameBJ, H11)>>)>>))
    @@ (U11 :> Html(FALSE, <<Tr("citytr", <<Linked(C1101, H1101),
                                             Linked(NameBJCity, H1101)>>)>>))
    @@ (U1101 :> LeafPage)

\* Root with two province cells; the first city page has a linked row and
\* a link-less row, the second a single link-less row and a row of a later
\* level that the city level hides.
TreeSite ==
    (TopUrl :> Html(FALSE, <<Tr("provincetr", <<Linked(NameBJ, H11),
                                                 Linked(NameTJ, H12)>>)>>))
    @@ (U11 :> Html(FALSE, <<Tr("citytr", <<Linked(C1101, H1101),
                                             Linked(NameBJCity, H1101)>>),
                              Tr("citytr", <<Plain(C1102), Plain(NameX)>>)>>))
    @@ (U12 :> Html(FALSE, <<Tr("towntr", <<Plain(C1102), Plain(NameX)>>),
                              Tr("citytr", <<Plain(C1201), Plain(NameTJ)>>)>>))
    @@ (U1101 :> LeafPage)

\* A city page whose two rows link to the same county page, one by a
\* relative and one by a root-relative reference.
DagSite ==
    (TopUrl :> Html(FALSE, <<Tr("provincetr", <<Linked(NameBJ, H11)>>)>>))
    @@ (U11 :> Html(FALSE, <<Tr("citytr", <<Linked(C1101, H1101),
                                             Plain(NameBJCity)>>),
                              Tr("citytr", <<Linked(C1201, R1101),
                                             Plain(NameTJ)>>)>>))
    @@ (U1101 :> Html(FALSE, <<Tr("countytr", <<Plain(C1102), Plain(NameX)>>)>>))

\* A root whose second province page has a city row without cells, and
\* whose first links to a page the site does not have.
BadSite ==
    (TopUrl :> Html(FALSE, <<Tr("provincetr", <<Linked(NameBJ, H11),
                                                 Linked(NameTJ, H12)>>)>>))
    @@ (U11 :> Html(FALSE, <<Tr("citytr", <<Linked(C1101, H1101),
                                             Plain(NameBJCity)>>)>>))
    @@ (U12 :> Html(FALSE, <<Tr("citytr", <<>>)>>))

\* Root with two province cells, each to a city page of one link-less row.
ForkSite ==
    (TopUrl :> Html(FALSE, <<Tr("provincetr", <<Linked(NameBJ, H11),
                                                 Linked(NameTJ, H12)>>)>>))
    @@ (U11 :> Html(FALSE, <<Tr("citytr", <<Plain(C1101), Plain(NameBJCity)>>)>>))
    @@ (U12 :> Html(FALSE, <<Tr("citytr", <<Plain(C1201), Plain(NameTJ)>>)>>))

\* A root whose second province cell has no <a>.
BrokenRootSite ==
    (TopUrl :> Html(FALSE, <<Tr("provincetr", <<Linked(NameBJ, H11),
                                                 Plain(NameTJ)>>)>>))
    @@ (U11 :> Html(FALSE, <<Tr("citytr", <<Plain(C1101), Plain(NameBJCity)>>)>>))

\* The sites without a malformed page and without a dangling link.
GoodSites == {ChainSite, TreeSite, DagSite}
\* The sites crawled under injected faults.
Sites == {ChainSite, DagSite, BadSite}

\* ------------------------------------------------------------- the network

\* What one session.get(url) / response.text() can come to.
\*   ok           a 2xx response with the page as body
\*   http_error   a response with another status (404 for a url the site
\*                does not have, 5xx) and an error page as body
\*   limited      a 2xx response: the page with the anti-scraping script
\*   client_error aiohttp.ClientError is raised
\*   timeout      asyncio.TimeoutError is raised (the session's total
\*                timeout; not an aiohttp.ClientError)
FaultKinds == {"http_error", "limited", "client_error", "timeout"}
\* The faults analyze_page answers with a retry.
Recoverable == {"limited", "client_error"}

\* What the site answers when the network injects no fault.
Served(u) == IF u \in DOMAIN web THEN "ok" ELSE "http_error"

\* What the fetch of u can come to in this state: always ClientError for a
\* faulty url, else the site's answer or, while the budget lasts, a fault.
Kinds(u) ==
    IF u \in faulty THEN (IF budget > 0 THEN {"client_error"} ELSE {})
    ELSE {Served(u)} \cup (IF budget > 0 THEN netfaults ELSE {})

\* html = await response.text(): the body of a response, whatever its
\* status.
ResponseText(u, kind) ==
    IF kind = "http_error" THEN ErrorPage
    ELSE IF kind = "limited"
    THEN Html(TRUE, IF u \in DOMAIN web THEN web[u].trs ELSE <<>>)
    ELSE web[u]

\* ------------------------------------------------------------ analyze_page

\* analyze_page with the marker's branch returning [], []: the
\* rate-limited url is not handed back.
analyze_page_DropLimited(u, kind) ==
    IF kind = "client_error"
    THEN [pc |-> "sleep", backoff |-> ErrorSleep,
          divisions |-> <<>>, subpages |-> <<u>>]
    ELSE IF kind = "timeout"
    THEN [pc |-> "raised", backoff |-> 0, divisions |-> <<>>, subpages |-> <<>>]
    ELSE IF ResponseText(u, kind).marker
    THEN [pc |-> "sleep", backoff |-> LimitSleep,
          divisions |-> <<>>, subpages |-> <<>>]
    ELSE [pc        |-> IF Extract(ResponseText(u, kind), u).raised
                        THEN "raised" ELSE "publish",
          backoff   |-> 0,
          divisions |-> Extract(ResponseText(u, kind), u).divisions,
          subpages  |-> Extract(ResponseText(u, kind), u).subpages]

\* analyze_page with the ClientError handler returning [], []: the url
\* whose fetch failed is given up.
analyze_page_GiveUp(u, kind) ==
    IF kind = "client_error"
    THEN [pc |-> "sleep", backoff |-> ErrorSleep,
          divisions |-> <<>>, subpages |-> <<>>]
    ELSE IF kind = "timeout"
    THEN [pc |-> "raised", backoff |-> 0, divisions |-> <<>>, subpages |-> <<>>]
    ELSE IF ResponseText(u, kind).marker
    THEN [pc |-> "sleep", backoff |-> LimitSleep,
          divisions |-> <<>>, subpages |-> <<u>>]
    ELSE [pc        |-> IF Extract(ResponseText(u, kind), u).raised
                        THEN "raised" ELSE "publish",
          backoff   |-> 0,
          divisions |-> Extract(ResponseText(u, kind), u).divisions,
          subpages  |-> Extract(ResponseText(u, kind), u).subpages]

\* analyze_page with the exceptions of the extraction caught and answered
\* by [], [].
analyze_page_Swallow(u, kind) ==
    IF kind = "client_error"
    THEN [pc |-> "sleep", backoff |-> ErrorSleep,
          divisions |-> <<>>, subpages |-> <<u>>]
    ELSE IF kind = "timeout"
    THEN [pc |-> "raised", backoff |-> 0, divisions |-> <<>>, subpages |-> <<>>]
    ELSE IF ResponseText(u, kind).marker
    THEN [pc |-> "sleep", backoff |-> LimitSleep,
          divisions |-> <<>>, subpages |-> <<u>>]
    ELSE [pc        |-> "publish",
          backoff   |-> 0,
          divisions |-> Extract(ResponseText(u, kind), u).divisions,
          subpages  |-> Extract(ResponseText(u, kind), u).subpages]

\* analyze_page(url) when the fetch comes to `kind`: the place the worker
\* goes to ("sleep": in asyncio.sleep before the return; "publish":
\* returned to the worker's first loop;
\* "raised": an exception left analyze_page), the sleep's argument and the
\* two lists returned.
analyze_page(u, kind) ==
    IF kind = "client_error"
    THEN [pc |-> "sleep", backoff |-> ErrorSleep,
          divisions |-> <<>>, subpages |-> <<u>>]
    ELSE IF kind = "timeout"
    THEN [pc |-> "raised", backoff |-> 0, divisions |-> <<>>, subpages |-> <<>>]
    ELSE IF ResponseText(u, kind).marker
    THEN [pc |-> "sleep", backoff |-> LimitSleep,
          divisions |-> <<>>, subpages |-> <<u>>]
    ELSE [pc        |-> IF Extract(ResponseText(u, kind), u).raised
                        THEN "raised" ELSE "publish",
          backoff   |-> 0,
          divisions |-> Extract(ResponseText(u, kind), u).divisions,
          subpages  |-> Extract(ResponseText(u, kind), u).subpages]

\* --------------------------------------------------------------- run_queue

Workers == 1..MaxTasks
\* The value of a worker's url before its first queue.get() (and, in the
\* model, after task_done, when the old value is never read again).
NoUrl == <<>>
\* The writer's division while it holds none.
NoDivision == <<>>
\* writer.writeheader(): the row of the field names.
Header == <<"code", "name", "level">>

\* run_queue with the pool size validated: at least one worker task is
\* created.
run_queue_AtLeastOne(site, n, bad, kinds, faults) ==
    /\ web = site
    /\ faulty = bad
    /\ netfaults = kinds
    /\ budget = faults
    /\ ntasks = n
    /\ queue = <<TopUrl>>
    /\ qUnfinished = 1
    /\ queue_writer = <<>>
    /\ wUnfinished = 0
    /\ pc = [w \in Workers |-> IF w <= n \/ w = 1 THEN "get" ELSE "none"]
    /\ url = [w \in Workers |-> NoUrl]
    /\ divisions = [w \in Workers |-> <<>>]
    /\ subpages = [w \in Workers |-> <<>>]
    /\ backoff = [w \in Workers |-> 0]
    /\ fetched = [w \in Workers |-> "none"]
    /\ wpc = "open"
    /\ division = NoDivision
    /\ csvfile = <<>>
    /\ t_scanned = 0
    /\ t_saved = 0
    /\ dpc = "join_queue"
    /\ nput = SetToBag({TopUrl})
    /\ nget = EmptyBag
    /\ ndone = EmptyBag
    /\ published = EmptyBag

\* run_queue up to its first await: queue holds the root url (put_nowait
\* counts it as unfinished), queue_writer is empty, ntasks worker tasks
\* and the writer task are created and none has run yet.
run_queue(site, n, bad, kinds, faults) ==
    /\ web = site
    /\ faulty = bad
    /\ netfaults = kinds
    /\ budget = faults
    /\ ntasks = n
    /\ queue = <<TopUrl>>
    /\ qUnfinished = 1
    /\ queue_writer = <<>>
    /\ wUnfinished = 0
    /\ pc = [w \in Workers |-> IF w <= n THEN "get" ELSE "none"]
    /\ url = [w \in Workers |-> NoUrl]
    /\ divisions = [w \in Workers |-> <<>>]
    /\ subpages = [w \in Workers |-> <<>>]
    /\ backoff = [w \in Workers |-> 0]
    /\ fetched = [w \in Workers |-> "none"]
    /\ wpc = "open"
    /\ division = NoDivision
    /\ csvfile = <<>>
    /\ t_scanned = 0
    /\ t_saved = 0
    /\ dpc = "join_queue"
    /\ nput = SetToBag({TopUrl})
    /\ nget = EmptyBag
    /\ ndone = EmptyBag
    /\ published = EmptyBag

\* Any site, any pool size from 0, transient faults within the budget.
Init ==
    \E site \in Sites, n \in 0..MaxTasks :
        run_queue(site, n, {}, FaultKinds, MaxFaults)

\* ------------------------------------------------------------------ worker

\* Get that reads the head of queue and leaves it there.
Get_Peek(w) ==
    /\ pc[w] = "get"
    /\ queue # <<>>
    /\ url' = [url EXCEPT ![w] = Head(queue)]
    /\ queue' = queue
    /\ nget' = nget (+) SetToBag({Head(queue)})
    /\ pc' = [pc EXCEPT ![w] = "fetch"]
    /\ UNCHANGED <<web, faulty, netfaults, fetched, budget, ntasks,
                   qUnfinished, queue_writer, wUnfinished, divisions,
                   subpages, backoff, wpc, division, csvfile, t_scanned,
                   t_saved, dpc, nput, ndone, published>>

\* url = await queue.get()
Get(w) ==
    /\ pc[w] = "get"
    /\ queue # <<>>
    /\ url' = [url EXCEPT ![w] = Head(queue)]
    /\ queue' = Tail(queue)
    /\ nget' = nget (+) SetToBag({Head(queue)})
    /\ pc' = [pc EXCEPT ![w] = "fetch"]
    /\ UNCHANGED <<web, faulty, netfaults, fetched, budget, ntasks,
                   qUnfinished, queue_writer, wUnfinished, divisions,
                   subpages, backoff, wpc, division, csvfile, t_scanned,
                   t_saved, dpc, nput, ndone, published>>

\* The bag of the elements of a sequence.
SeqToBag(s) ==
    [x \in {s[i] : i \in 1..Len(s)} |-> Cardinality({i \in 1..Len(s) : s[i] = x})]

\* Fetch with the failed url put back on queue before the sleep instead
\* of after it (by the worker, from analyze_page's return).
Fetch_RequeueFirst(w) ==
    /\ pc[w] = "fetch"
    /\ \E kind \in Kinds(url[w]) :
          \E r \in {analyze_page(url[w], kind)} :
              /\ pc' = [pc EXCEPT ![w] = r.pc]
              /\ backoff' = [backoff EXCEPT ![w] = r.backoff]
              /\ divisions' = [divisions EXCEPT ![w] = r.divisions]
              /\ subpages' = [subpages EXCEPT ![w] =
                                 IF r.pc = "sleep" THEN <<>> ELSE r.subpages]
              /\ queue' = IF r.pc = "sleep" THEN queue \o r.subpages ELSE queue
              /\ qUnfinished' = IF r.pc = "sleep"
                                THEN qUnfinished + Len(r.subpages) ELSE qUnfinished
              /\ nput' = IF r.pc = "sleep"
                         THEN nput (+) SeqToBag(r.subpages) ELSE nput
              /\ fetched' = [fetched EXCEPT ![w] = kind]
              /\ budget' = IF kind = Served(url[w]) /\ url[w] \notin faulty
                           THEN budget ELSE budget - 1
    /\ UNCHANGED <<web, faulty, netfaults, ntasks, queue_writer, wUnfinished,
                   url, wpc, division, csvfile, t_scanned, t_saved, dpc, nget,
                   ndone, published>>

\* divisions, subpages = await analyze_page(url), up to its return or to
\* the asyncio.sleep before its return.
Fetch(w) ==
    /\ pc[w] = "fetch"
    /\ \E kind \in Kinds(url[w]) :
          \E r \in {analyze_page(url[w], kind)} :
              /\ pc' = [pc EXCEPT ![w] = r.pc]
              /\ backoff' = [backoff EXCEPT ![w] = r.backoff]
              /\ divisions' = [divisions EXCEPT ![w] = r.divisions]
              /\ subpages' = [subpages EXCEPT ![w] = r.subpages]
              /\ fetched' = [fetched EXCEPT ![w] = kind]
              /\ budget' = IF kind = Served(url[w]) /\ url[w] \notin faulty
                           THEN budget ELSE budget - 1
    /\ UNCHANGED <<web, faulty, netfaults, ntasks, queue, qUnfinished,
                   queue_writer, wUnfinished, url, wpc, division, csvfile,
                   t_scanned, t_saved, dpc, nput, nget, ndone, published>>

\* await asyncio.sleep(...) is over and analyze_page returns [], [url].
Sleep(w) ==
    /\ pc[w] = "sleep"
    /\ pc' = [pc EXCEPT ![w] = "publish"]
    /\ backoff' = [backoff EXCEPT ![w] = 0]
    /\ UNCHANGED <<web, faulty, netfaults, fetched, budget, ntasks, queue,
                   qUnfinished, queue_writer, wUnfinished, url, divisions,
                   subpages, wpc, division, csvfile, t_scanned, t_saved, dpc,
                   nput, nget, ndone, published>>

\* PutDivisions with the loop left after its first round: only the first
\* division is put on queue_writer.
PutDivisions_First(w) ==
    /\ pc[w] = "publish"
    /\ queue_writer' = queue_writer
                           \o SubSeq(divisions[w], 1, IF divisions[w] = <<>> THEN 0 ELSE 1)
    /\ wUnfinished' = wUnfinished + (IF divisions[w] = <<>> THEN 0 ELSE 1)
    /\ published' = published
                        (+) SeqToBag(SubSeq(divisions[w], 1, IF divisions[w] = <<>> THEN 0 ELSE 1))
    /\ divisions' = [divisions EXCEPT ![w] = <<>>]
    /\ pc' = [pc EXCEPT ![w] = "enqueue"]
    /\ UNCHANGED <<web, faulty, netfaults, fetched, budget, ntasks, queue,
                   qUnfinished, url, subpages, backoff, wpc, division,
                   csvfile, t_scanned, t_saved, dpc, nput, nget, ndone>>

\* for division in divisions: await queue_writer.put(division)
\* (put on an unbounded queue never suspends: the loop is one step).
PutDivisions(w) ==
    /\ pc[w] = "publish"
    /\ queue_writer' = queue_writer \o divisions[w]
    /\ wUnfinished' = wUnfinished + Len(divisions[w])
    /\ published' = published (+) SeqToBag(divisions[w])
    /\ divisions' = [divisions EXCEPT ![w] = <<>>]
    /\ pc' = [pc EXCEPT ![w] = "enqueue"]
    /\ UNCHANGED <<web, faulty, netfaults, fetched, budget, ntasks, queue,
                   qUnfinished, url, subpages, backoff, wpc, division,
                   csvfile, t_scanned, t_saved, dpc, nput, nget, ndone>>

\* PutSubpages with the loop left after its first round: only the first
\* subpage is put on queue.
PutSubpages_First(w) ==
    /\ pc[w] = "enqueue"
    /\ queue' = queue \o SubSeq(subpages[w], 1, IF subpages[w] = <<>> THEN 0 ELSE 1)
    /\ qUnfinished' = qUnfinished + Len(SubSeq(subpages[w], 1, IF subpages[w] = <<>> THEN 0 ELSE 1))
    /\ nput' = nput (+) SeqToBag(SubSeq(subpages[w], 1, IF subpages[w] = <<>> THEN 0 ELSE 1))
    /\ subpages' = [subpages EXCEPT ![w] = <<>>]
    /\ pc' = [pc EXCEPT ![w] = "done"]
    /\ UNCHANGED <<web, faulty, netfaults, fetched, budget, ntasks,
                   queue_writer, wUnfinished, url, divisions, backoff, wpc,
                   division, csvfile, t_scanned, t_saved, dpc, nget, ndone,
                   published>>

RECURSIVE UnseenTo(_, _, _, _)
\* Of the first k subpages, those a seen-set lets pass: the worker's own
\* url (a retry), and any url neither put on queue before nor earlier in
\* the list.
UnseenTo(subs, k, own, seen) ==
    IF k = 0 THEN <<>>
    ELSE UnseenTo(subs, k - 1, own, seen)
         \o (IF subs[k] = own
                \/ (~BagIn(subs[k], seen) /\ \A j \in 1..k - 1 : subs[j] # subs[k])
             THEN <<subs[k]>> ELSE <<>>)

\* PutSubpages with a seen-set: a subpage that was put on queue before is
\* not put again.
PutSubpages_Unseen(w) ==
    /\ pc[w] = "enqueue"
    /\ \E new \in {UnseenTo(subpages[w], Len(subpages[w]), url[w], nput)} :
          /\ queue' = queue \o new
          /\ qUnfinished' = qUnfinished + Len(new)
          /\ nput' = nput (+) SeqToBag(new)
    /\ subpages' = [subpages EXCEPT ![w] = <<>>]
    /\ pc' = [pc EXCEPT ![w] = "done"]
    /\ UNCHANGED <<web, faulty, netfaults, fetched, budget, ntasks,
                   queue_writer, wUnfinished, url, divisions, backoff, wpc,
                   division, csvfile, t_scanned, t_saved, dpc, nget, ndone,
                   published>>

\* for subpage in subpages: await queue.put(subpage)
PutSubpages(w) ==
    /\ pc[w] = "enqueue"
    /\ queue' = queue \o subpages[w]
    /\ qUnfinished' = qUnfinished + Len(subpages[w])
    /\ nput' = nput (+) SeqToBag(subpages[w])
    /\ subpages' = [subpages EXCEPT ![w] = <<>>]
    /\ pc' = [pc EXCEPT ![w] = "done"]
    /\ UNCHANGED <<web, faulty, netfaults, fetched, budget, ntasks,
                   queue_writer, wUnfinished, url, divisions, backoff, wpc,
                   division, csvfile, t_scanned, t_saved, dpc, nget, ndone,
                   published>>

\* queue.task_done(): ValueError when no task is unfinished.
task_done(unfinished) ==
    IF unfinished <= 0 THEN [raised |-> TRUE, unfinished |-> unfinished]
    ELSE [raised |-> FALSE, unfinished |-> unfinished - 1]

\* TaskDone with the retry path going back to the head of the loop
\* (continue) before queue.task_done().
TaskDone_SkipOnRetry(w) ==
    /\ pc[w] = "done"
    /\ t_scanned' = t_scanned + 1
    /\ \E r \in {IF fetched[w] \in Recoverable
                  THEN [raised |-> FALSE, unfinished |-> qUnfinished]
                  ELSE task_done(qUnfinished)} :
           /\ qUnfinished' = r.unfinished
           /\ pc' = [pc EXCEPT ![w] = IF r.raised THEN "raised" ELSE "get"]
           /\ ndone' = IF r.raised THEN ndone ELSE ndone (+) SetToBag({url[w]})
           /\ url' = [url EXCEPT ![w] = IF r.raised THEN url[w] ELSE NoUrl]
           /\ fetched' = [fetched EXCEPT ![w] = IF r.raised THEN @ ELSE "none"]
    /\ UNCHANGED <<web, faulty, netfaults, budget, ntasks, queue,
                   queue_writer, wUnfinished, divisions, subpages, backoff,
                   wpc, division, csvfile, t_saved, dpc, nput, nget,
                   published>>

\* TaskDone that counts a page as scanned only when its fetch was not a
\* failure that is retried.
TaskDone_CountFetched(w) ==
    /\ pc[w] = "done"
    /\ t_scanned' = t_scanned + (IF fetched[w] \in Recoverable THEN 0 ELSE 1)
    /\ \E r \in {task_done(qUnfinished)} :
           /\ qUnfinished' = r.unfinished
           /\ pc' = [pc EXCEPT ![w] = IF r.raised THEN "raised" ELSE "get"]
           /\ ndone' = IF r.raised THEN ndone ELSE ndone (+) SetToBag({url[w]})
           /\ url' = [url EXCEPT ![w] = IF r.raised THEN url[w] ELSE NoUrl]
           /\ fetched' = [fetched EXCEPT ![w] = IF r.raised THEN @ ELSE "none"]
    /\ UNCHANGED <<web, faulty, netfaults, budget, ntasks, queue,
                   queue_writer, wUnfinished, divisions, subpages, backoff,
                   wpc, division, csvfile, t_saved, dpc, nput, nget,
                   published>>

\* t_scanned.update(1); queue.task_done(), and back to the head of the loop.
TaskDone(w) ==
    /\ pc[w] = "done"
    /\ t_scanned' = t_scanned + 1
    /\ \E r \in {task_done(qUnfinished)} :
           /\ qUnfinished' = r.unfinished
           /\ pc' = [pc EXCEPT ![w] = IF r.raised THEN "raised" ELSE "get"]
           /\ ndone' = IF r.raised THEN ndone ELSE ndone (+) SetToBag({url[w]})
           /\ url' = [url EXCEPT ![w] = IF r.raised THEN url[w] ELSE NoUrl]
           /\ fetched' = [fetched EXCEPT ![w] = IF r.raised THEN @ ELSE "none"]
    /\ UNCHANGED <<web, faulty, netfaults, budget, ntasks, queue,
                   queue_writer, wUnfinished, divisions, subpages, backoff,
                   wpc, division, csvfile, t_saved, dpc, nput, nget,
                   published>>

\* ------------------------------------------------------------------ writer

\* The row writer.writerow makes of a division: code and name stripped.
Row(d) == <<Strip(d[1]), Strip(d[2]), d[3]>>

\* open(fn, "w"); writer.writeheader()
WriterOpen ==
    /\ wpc = "open"
    /\ csvfile' = <<Header>>
    /\ wpc' = "get"
    /\ UNCHANGED <<web, faulty, netfaults, fetched, budget, ntasks, queue,
                   qUnfinished, queue_writer, wUnfinished, pc, url,
                   divisions, subpages, backoff, division, t_scanned,
                   t_saved, dpc, nput, nget, ndone, published>>

\* WriterGet on a queue that hands out its newest item (a LifoQueue).
WriterGet_Last ==
    /\ wpc = "get"
    /\ queue_writer # <<>>
    /\ division' = queue_writer[Len(queue_writer)]
    /\ queue_writer' = SubSeq(queue_writer, 1, Len(queue_writer) - 1)
    /\ wpc' = "row"
    /\ UNCHANGED <<web, faulty, netfaults, fetched, budget, ntasks, queue,
                   qUnfinished, wUnfinished, pc, url, divisions, subpages,
                   backoff, csvfile, t_scanned, t_saved, dpc, nput, nget,
                   ndone, published>>

\* division = await queue.get()
WriterGet ==
    /\ wpc = "get"
    /\ queue_writer # <<>>
    /\ division' = Head(queue_writer)
    /\ queue_writer' = Tail(queue_writer)
    /\ wpc' = "row"
    /\ UNCHANGED <<web, faulty, netfaults, fetched, budget, ntasks, queue,
                   qUnfinished, wUnfinished, pc, url, divisions, subpages,
                   backoff, csvfile, t_scanned, t_saved, dpc, nput, nget,
                   ndone, published>>

\* writer.writerow({...}); queue.task_done(); t_saved.update(1), and back
\* to the head of the loop (nothing between them suspends).
WriterRow ==
    /\ wpc = "row"
    /\ csvfile' = Append(csvfile, Row(division))
    /\ \E r \in {task_done(wUnfinished)} :
           /\ wUnfinished' = r.unfinished
           /\ wpc' = IF r.raised THEN "raised" ELSE "get"
           /\ t_saved' = IF r.raised THEN t_saved ELSE t_saved + 1
    /\ division' = NoDivision
    /\ UNCHANGED <<web, faulty, netfaults, fetched, budget, ntasks, queue,
                   qUnfinished, queue_writer, pc, url, divisions, subpages,
                   backoff, t_scanned, dpc, nput, nget, ndone, published>>

\* ------------------------------------------------------------------ driver

\* Queue.join(): returns once no task of the queue is unfinished.
join(unfinished) == unfinished = 0

\* JoinQueue without the wait: run_queue goes on to the second join while
\* urls are unfinished.
JoinQueue_NoJoin ==
    /\ dpc = "join_queue"
    /\ dpc' = "join_writer"
    /\ UNCHANGED <<web, faulty, netfaults, fetched, budget, ntasks, queue,
                   qUnfinished, queue_writer, wUnfinished, pc, url, divisions,
                   subpages, backoff, wpc, division, csvfile, t_scanned,
                   t_saved, nput, nget, ndone, published>>

\* await queue.join()
JoinQueue ==
    /\ dpc = "join_queue"
    /\ join(qUnfinished)
    /\ dpc' = "join_writer"
    /\ UNCHANGED <<web, faulty, netfaults, fetched, budget, ntasks, queue,
                   qUnfinished, queue_writer, wUnfinished, pc, url,
                   divisions, subpages, backoff, wpc, division, csvfile,
                   t_scanned, t_saved, nput, nget, ndone, published>>

\* JoinWriter without the wait: run_queue returns while divisions are
\* unfinished.
JoinWriter_NoJoin ==
    /\ dpc = "join_writer"
    /\ dpc' = "returned"
    /\ UNCHANGED <<web, faulty, netfaults, fetched, budget, ntasks, queue,
                   qUnfinished, queue_writer, wUnfinished, pc, url, divisions,
                   subpages, backoff, wpc, division, csvfile, t_scanned,
                   t_saved, nput, nget, ndone, published>>

\* await queue_writer.join(), and run_queue returns.
JoinWriter ==
    /\ dpc = "join_writer"
    /\ join(wUnfinished)
    /\ dpc' = "returned"
    /\ UNCHANGED <<web, faulty, netfaults, fetched, budget, ntasks, queue,
                   qUnfinished, queue_writer, wUnfinished, pc, url,
                   divisions, subpages, backoff, wpc, division, csvfile,
                   t_scanned, t_saved, nput, nget, ndone, published>>

\* ------------------------------------------------------------ specification

Next ==
    \/ \E w \in Workers : Get(w)
    \/ \E w \in Workers : Fetch(w)
    \/ \E w \in Workers : Sleep(w)
    \/ \E w \in Workers : PutDivisions(w)
    \/ \E w \in Workers : PutSubpages(w)
    \/ \E w \in Workers : TaskDone(w)
    \/ WriterOpen
    \/ WriterGet
    \/ WriterRow
    \/ JoinQueue
    \/ JoinWriter

Spec == Init /\ [][Next]_vars

\* The steps of one worker task, of the writer task and of run_queue.
Worker(w) ==
    Get(w) \/ Fetch(w) \/ Sleep(w) \/ PutDivisions(w) \/ PutSubpages(w) \/ TaskDone(w)
Writer == WriterOpen \/ WriterGet \/ WriterRow
Driver == JoinQueue \/ JoinWriter

\* The event loop runs every task that is ready, and every fetch and every
\* sleep ends: no task that can take a step waits forever.
Fairness ==
    /\ \A w \in Workers : WF_vars(Worker(w))
    /\ WF_vars(Writer)
    /\ WF_vars(Driver)

\* A crawl without faults: a well-formed site, a pool of at least one.
CleanInit ==
    \E site \in GoodSites, n \in 1..MaxTasks : run_queue(site, n, {}, {}, 0)

\* The steps of a crawl in which no fetch fails (no worker ever sleeps).
CleanNext ==
    \/ \E w \in Workers : Get(w)
    \/ \E w \in Workers : Fetch(w)
    \/ \E w \in Workers : PutDivisions(w)
    \/ \E w \in Workers : PutSubpages(w)
    \/ \E w \in Workers : TaskDone(w)
    \/ WriterOpen
    \/ WriterGet
    \/ WriterRow
    \/ JoinQueue
    \/ JoinWriter

CleanSpec == CleanInit /\ [][CleanNext]_vars /\ Fairness

\* A crawl of a well-formed site under the faults analyze_page retries.
RetryInit ==
    \E site \in {ChainSite, ForkSite}, n \in 1..MaxTasks :
        run_queue(site, n, {}, Recoverable, MaxFaults)

RetrySpec == RetryInit /\ [][Next]_vars /\ Fairness

\* A crawl in which the fetch of at most one url fails every time and
\* every other fetch succeeds.
StuckInit ==
    \E site \in {ChainSite, ForkSite}, n \in 1..MaxTasks :
        \E bad \in {{}} \cup {{u} : u \in DOMAIN site} :
            run_queue(site, n, bad, {}, MaxRetries)

StuckSpec == StuckInit /\ [][Next]_vars /\ Fairness

\* A crawl without fetch faults of a site with a malformed page (and, to
\* compare, of the chain, which has none).
MalformedInit ==
    \E site \in {ChainSite, BadSite, BrokenRootSite}, n \in 1..MaxTasks :
        run_queue(site, n, {}, {}, 0)

MalformedSpec == MalformedInit /\ [][CleanNext]_vars /\ Fairness

\* A crawl without faults of a well-formed site by a pool of any size,
\* zero and a negative number included (range(ntasks) is empty for both).
PoolInit ==
    \E site \in {ChainSite, ForkSite}, n \in -1..MaxTasks :
        run_queue(site, n, {}, {}, 0)

PoolSpec == PoolInit /\ [][CleanNext]_vars /\ Fairness

\* The references a province cell is tried with: a file name with a stem
\* of 1..MaxStem characters, bare, in a directory, from the site's root,
\* with scheme and host, and without extension.
Stems == {[i \in 1..n |-> "1"] : n \in 1..MaxStem}
DotHtml == <<".", "h", "t", "m", "l">>
Hrefs ==
    UNION {{stem \o DotHtml,
            <<"d", "/">> \o stem \o DotHtml,
            <<"/", "y", "/">> \o stem \o DotHtml,
            TopUrl \o stem \o DotHtml,
            stem} : stem \in Stems}

\* The page bodies extraction is tried on: province pages of one row with
\* one or two linked cells, and pages without any row of a level class.
Bodies ==
    {Html(FALSE, <<Tr("provincetr", <<Linked(NameBJ, h)>>)>>) : h \in Hrefs}
    \cup {Html(FALSE, <<Tr("provincetr", <<Linked(NameBJ, h), Linked(NameTJ, H12)>>)>>) :
             h \in Hrefs}
    \cup {LeafPage, ErrorPage}

\* The crawl, by one worker and without faults, of a site of one page
\* (whose links lead to pages the site does not have).
ExtractInit == \E body \in Bodies : run_queue(TopUrl :> body, 1, {}, {}, 0)

ExtractSpec == ExtractInit /\ [][CleanNext]_vars

\* The first cells a row of a level other than province is tried with: the
\* code as a link, as plain text, in an <a> with an empty href, and in an
\* <a> without href.
FirstCells ==
    {Linked(C1101, H1101), Plain(C1101),
     Td(C1101, TRUE, TRUE, <<>>), Td(C1101, TRUE, FALSE, <<>>)}

\* The rows pages are made of: a province row of one linked cell; for
\* every other level a row of a first cell and a name cell, a row of a
\* single cell, and a row of three cells; and a row of no level class.
PageRows ==
    {Tr("provincetr", <<Linked(NameBJ, H11)>>), Tr("head", <<Plain(NameX)>>)}
    \cup UNION {{Tr(AdminTypes[k] \o "tr", <<first, Plain(NameTJ)>>) : first \in FirstCells}
                \cup {Tr(AdminTypes[k] \o "tr", <<Plain(C1102)>>),
                      Tr(AdminTypes[k] \o "tr",
                         <<Linked(C1201, H12), Plain(NameX), Plain(NameBJCity)>>)} :
                  k \in 2..Len(AdminTypes)}

\* The pages of 1..MaxRows such rows, in any order.
PageBodies ==
    {Html(FALSE, trs) : trs \in UNION {[1..n -> PageRows] : n \in 1..MaxRows}}

\* The crawl, by one worker and without faults, of a site of one such page.
PageInit == \E body \in PageBodies : run_queue(TopUrl :> body, 1, {}, {}, 0)

PageSpec == PageInit /\ [][CleanNext]_vars

\* ------------------------------------------------------------------ claims

\* The data rows of the csv file (the rows after the header).
DataRows == IF csvfile = <<>> THEN <<>> ELSE Tail(csvfile)

\* The workers that hold a url taken from queue and not yet marked done.
Holding == {w \in Workers : url[w] # NoUrl}

\* The number of occurrences of x in sequence s.
Count(s, x) == Cardinality({i \in 1..Len(s) : s[i] = x})

\* The child links of the page at u, as the site serves it.
ChildLinks(site, u) == Extract(site[u], u).subpages

RECURSIVE SumLinks(_, _, _)
\* How many child links of the pages in `pages` point to url v.
SumLinks(site, pages, v) ==
    IF pages = {} THEN 0
    ELSE LET u == CHOOSE x \in pages : TRUE
         IN  Count(ChildLinks(site, u), v) + SumLinks(site, pages \ {u}, v)

\* A site is a tree when every page but the root is the target of exactly
\* one child link, the root of none, and every link leads to a page.
IsTree(site) ==
    /\ \A v \in DOMAIN site :
          SumLinks(site, DOMAIN site, v) = (IF v = TopUrl THEN 0 ELSE 1)
    /\ \A u \in DOMAIN site :
          \A i \in 1..Len(ChildLinks(site, u)) : ChildLinks(site, u)[i] \in DOMAIN site

\* C1, the state when the Frontier join has completed on a tree: every
\* page was taken from the queue exactly once and put on it exactly once
\* (the root by run_queue, any other as the one child link that leads to
\* it), and nothing else was ever put on it.
C1_JoinedOnce ==
    (dpc # "join_queue" /\ IsTree(web)) =>
        /\ \A u \in DOMAIN web : CopiesIn(u, nget) = 1 /\ CopiesIn(u, nput) = 1
        /\ BagToSet(nput) = DOMAIN web
        /\ BagToSet(nget) = DOMAIN web

\* C1: without fetch faults and with at least one worker, run_queue
\* eventually returns (the join on queue, then the join on queue_writer),
\* and when the join on queue completes on a tree of pages, every page has
\* been dequeued exactly once and every child link enqueued exactly once.
C1_Terminates == <>(dpc = "returned") /\ []C1_JoinedOnce

\* C1's case: run_queue has returned from the crawl of the tree with two
\* province pages by a pool of two workers.
C1_Witness ==
    /\ dpc = "returned"
    /\ web = TreeSite
    /\ IsTree(web)
    /\ ntasks = 2
    /\ \A u \in DOMAIN web : CopiesIn(u, nget) = 1

\* C2: the unfinished counter of queue is the number of urls waiting in
\* queue plus the number of urls a worker has dequeued and not yet marked
\* done, so once the join on queue is released no url, retried or not, is
\* waiting or in flight.
C2_Unfinished ==
    /\ qUnfinished = Len(queue) + Cardinality(Holding)
    /\ dpc # "join_queue" => (queue = <<>> /\ Holding = {})

\* C2's case: a url whose fetch failed waits in queue again while the
\* worker that put it back has not yet marked its own task done.
C2_Witness ==
    \E w \in Workers :
        /\ pc[w] = "done"
        /\ fetched[w] \in Recoverable
        /\ Count(queue, url[w]) = 1
        /\ qUnfinished = Len(queue) + 1
        /\ dpc = "join_queue"

\* C3 as stated: every worker that has dequeued a url can and will still
\* mark it done (no worker task has ended holding a url it did not mark
\* done), and the counter is the number of puts less the number of
\* task_done calls and never negative.
C3_EveryDequeueDone ==
    /\ \A w \in Workers : url[w] # NoUrl => pc[w] # "raised"
    /\ qUnfinished = BagCardinality(nput) - BagCardinality(ndone)
    /\ qUnfinished >= 0

RECURSIVE SumOver(_, _)
\* The sum of B[d] over the elements d of set D.
SumOver(B, D) ==
    IF D = {} THEN 0
    ELSE LET d == CHOOSE x \in D : TRUE IN B[d] + SumOver(B, D \ {d})

\* The bag of the rows the writer makes of a bag of divisions.
RowBag(B) ==
    [r \in {Row(d) : d \in BagToSet(B)} |->
        SumOver(B, {d \in BagToSet(B) : Row(d) = r})]

\* C4 as stated: when run_queue has returned, the rows written are the
\* divisions published, as bags, and no division waits in queue_writer or
\* in the writer's hands.
C4_RowsEqualRecords ==
    dpc = "returned" =>
        /\ SeqToBag(DataRows) = published
        /\ queue_writer = <<>>
        /\ wpc # "row"

\* C4 as amended: when run_queue has returned, the rows written are, as a
\* bag, the divisions published with code and name stripped of leading
\* and trailing whitespace; none waits in queue_writer or with the writer.
C4_RowsAreStrippedRecords ==
    dpc = "returned" =>
        /\ SeqToBag(DataRows) = RowBag(published)
        /\ Len(DataRows) = BagCardinality(published)
        /\ queue_writer = <<>>
        /\ wpc # "row"

\* C4's case: run_queue has returned after at least two divisions were
\* published, one of them with whitespace around its name.
C4_Witness ==
    /\ dpc = "returned"
    /\ BagCardinality(published) >= 2
    /\ \E d \in BagToSet(published) : Row(d) # d

\* The bag of the elements of the concatenation of bags B[1..k].
RECURSIVE BagSum(_, _)
BagSum(B, k) == IF k = 0 THEN EmptyBag ELSE BagSum(B, k - 1) (+) B[k]

RECURSIVE CrawlRows(_, _, _, _)
\* The rows a crawl that starts at url u writes, found by walking the
\* site's links one page after the other to depth d, the pages in `bad`
\* (those that cannot be fetched) giving nothing.
CrawlRows(site, bad, u, d) ==
    IF d = 0 \/ u \notin DOMAIN site \/ u \in bad THEN EmptyBag
    ELSE LET r == Extract(site[u], u)
         IN  RowBag(SeqToBag(r.divisions))
             (+) BagSum([i \in 1..Len(r.subpages) |->
                            CrawlRows(site, bad, r.subpages[i], d - 1)],
                        Len(r.subpages))

RECURSIVE Reached(_, _, _, _)
\* The pages such a crawl fetches.
Reached(site, bad, u, d) ==
    IF d = 0 \/ u \notin DOMAIN site \/ u \in bad THEN {}
    ELSE {u} \cup UNION {Reached(site, bad, v, d - 1) :
                            v \in {ChildLinks(site, u)[i] :
                                     i \in 1..Len(ChildLinks(site, u))}}

\* No site of the model is deeper than this.
MaxDepth == Cardinality(UNION {DOMAIN site : site \in GoodSites})

\* C5: without fetch faults the bag of rows in the file when run_queue has
\* returned is the one the site determines, whatever the pool size and the
\* interleaving; for the chain root -> city page -> leaf they are the two
\* rows of the province and of the city.
C5_SameOutput ==
    dpc = "returned" =>
        /\ SeqToBag(DataRows) = CrawlRows(web, {}, TopUrl, MaxDepth)
        /\ web = ChainSite =>
              SeqToBag(DataRows) =
                  SetToBag({<<<<"1", "1">> \o Zeros(10), NameBJ, "province">>,
                            <<C1101, <<"B", "C">>, "city">>})

\* C5's case: run_queue has returned from the crawl of the chain by a pool
\* of two workers, with two data rows in the file.
C5_Witness ==
    /\ dpc = "returned"
    /\ web = ChainSite
    /\ ntasks = 2
    /\ Len(DataRows) = 2

\* C6, the steps of a worker whose fetch came to a rate-limited body: from
\* the fetch it goes to sleep for 60 seconds with nothing to publish and
\* its own url to put back; its publishing step leaves queue_writer as it
\* is; its enqueueing step appends its url, and nothing else, to queue.
C6_Step(w) ==
    /\ (pc[w] = "fetch" /\ fetched'[w] = "limited") =>
          /\ pc'[w] = "sleep"
          /\ backoff'[w] = 60
          /\ divisions'[w] = <<>>
          /\ subpages'[w] = <<url[w]>>
          /\ queue' = queue
          /\ queue_writer' = queue_writer
    /\ (fetched[w] = "limited" /\ pc[w] = "sleep" /\ pc'[w] # "sleep") =>
          pc'[w] = "publish" /\ queue' = queue
    /\ (fetched[w] = "limited" /\ pc[w] = "publish" /\ pc'[w] # "publish") =>
          /\ pc'[w] = "enqueue"
          /\ queue_writer' = queue_writer
          /\ published' = published
    /\ (fetched[w] = "limited" /\ pc[w] = "enqueue" /\ pc'[w] # "enqueue") =>
          /\ pc'[w] = "done"
          /\ queue' = Append(queue, url[w])

\* A worker has put a rate-limited url back on queue.
C6_PutBack == \E w \in Workers : fetched[w] = "limited" /\ pc[w] = "done"

\* C6: a worker whose fetch came to a body with the rate-limit marker
\* publishes no record and no child url of the page, sleeps 60 seconds,
\* puts the same url back on queue, and the url is dequeued again (every
\* url put on queue is taken from it as often as it was put).
C6_RateLimited ==
    /\ [][\A w \in Workers : C6_Step(w)]_vars
    /\ C6_PutBack ~> (nget = nput)

\* C6's case: the rate-limited body held province rows; the worker has put
\* the url back and another worker has already dequeued it again.
C6_Witness ==
    \E w, v \in Workers :
        /\ w # v
        /\ fetched[w] = "limited"
        /\ pc[w] = "done"
        /\ FirstLevel(web[url[w]]) = 1
        /\ url[v] = url[w]
        /\ pc[v] = "fetch"
        /\ published = EmptyBag

\* C7 as stated: a fetch that ended in a connection error, in a timeout or
\* in a response with a status other than 2xx makes the worker sleep 5
\* seconds with nothing to publish and its own url to put back, and never
\* ends the worker task.
C7_FailuresRetried ==
    \A w \in Workers :
        fetched[w] \in {"client_error", "timeout", "http_error"} =>
            /\ pc[w] # "raised"
            /\ pc[w] = "sleep" => backoff[w] = 5
            /\ pc[w] \in {"sleep", "publish"} =>
                  divisions[w] = <<>> /\ subpages[w] = <<url[w]>>

\* C8, while the crawl lasts: with a url whose fetch always fails, the
\* join on queue is never released and no worker task ends.
C8_NeverJoined ==
    faulty # {} => (dpc = "join_queue" /\ \A w \in Workers : pc[w] # "raised")

\* C8, the state the crawl comes to: every page reached without passing
\* the faulty url was processed once and its rows are written, and the
\* faulty url was put back on queue after each of its MaxRetries failed
\* fetches.
C8_OthersDone ==
    faulty # {} =>
        /\ SeqToBag(DataRows) = CrawlRows(web, faulty, TopUrl, MaxDepth)
        /\ \A u \in Reached(web, faulty, TopUrl, MaxDepth) : CopiesIn(u, ndone) = 1
        /\ \A u \in faulty :
              /\ CopiesIn(u, nput) = MaxRetries + 1
              /\ CopiesIn(u, ndone) = MaxRetries

\* C8: if the fetch of one url always fails and every other succeeds,
\* then for every pool size from 1 every other url that is reached is
\* processed and its rows are written, the faulty url is put back on queue
\* every time (as often as the model lets its fetch fail), and the join on
\* queue never completes: run_queue neither returns nor fails.
C8_Livelock == []C8_NeverJoined /\ <>[]C8_OthersDone

\* C8's case: the second province page of the fork always fails; it has
\* been put back MaxRetries times while the other two pages are done and
\* their three rows written.
C8_Witness ==
    /\ web = ForkSite
    /\ faulty = {U12}
    /\ CopiesIn(U12, nput) = MaxRetries + 1
    /\ \A u \in {TopUrl, U11} : CopiesIn(u, ndone) = 1
    /\ Len(DataRows) = 3
    /\ dpc = "join_queue"

\* The cells of the province rows of a page, in document order.
RECURSIVE CellsTo(_, _)
CellsTo(trs, k) == IF k = 0 THEN <<>> ELSE CellsTo(trs, k - 1) \o trs[k].tds
ProvinceCellsOf(html) ==
    CellsTo(SelectSeq(html.trs, LAMBDA tr : tr.cls = "provincetr"),
            Len(SelectSeq(html.trs, LAMBDA tr : tr.cls = "provincetr")))

\* The file name of a link without its extension.
FileStem(href) == FirstPiece(LastPiece(href, "/"), ".")

\* A link of the root page as an absolute url: a link with a scheme as it
\* is, a link from the site's root after scheme and host, any other in
\* the root page's directory.
Resolved(href) ==
    IF HasScheme(href) THEN href
    ELSE IF href[1] = "/" THEN <<"h", "t", "t", "p", ":", "/", "/", "s">> \o href
    ELSE TopUrl \o href

\* A worker has fetched a province page and analyze_page has returned.
C9_Extracted(w) ==
    /\ pc[w] = "publish"
    /\ fetched[w] = "ok"
    /\ ProvinceCellsOf(web[url[w]]) # <<>>

\* C9, what holds of the lists apart from the code's width: one division
\* and one subpage for every cell, the cell's text as name, the level
\* province, the code starting with the file-name stem and ending in
\* zeros, and the subpage the link as an absolute url.
C9_Lists(w) ==
    LET cells == ProvinceCellsOf(web[url[w]])
    IN  /\ Len(divisions[w]) = Len(cells)
        /\ Len(subpages[w]) = Len(cells)
        /\ \A i \in 1..Len(cells) :
              LET stem == FileStem(cells[i].href)
                  code == divisions[w][i][1]
              IN  /\ SubSeq(code, 1, Len(stem)) = stem
                  /\ \A j \in Len(stem) + 1..Len(code) : code[j] = "0"
                  /\ divisions[w][i][2] = cells[i].text
                  /\ divisions[w][i][3] = "province"
                  /\ HasScheme(subpages[w][i])
                  /\ subpages[w][i] = Resolved(cells[i].href)

\* C9: for a province page, one division and one absolute child
\* url for every cell, and every code is the link's file-name stem padded
\* with zeros to exactly 12 characters.
C9_PaddedTo12 ==
    \A w \in Workers :
        C9_Extracted(w) =>
            /\ C9_Lists(w)
            /\ \A i \in 1..Len(divisions[w]) : Len(divisions[w][i][1]) = 12

\* A page without any row of a level class.
NoLevel(html) ==
    \A i \in 1..Len(html.trs) :
        html.trs[i].cls \notin {"provincetr", "citytr", "countytr", "towntr", "villagetr"}

\* Worker w holds a page, fetched with success, that matches no level.
C10_Leaf(w) == fetched[w] = "ok" /\ NoLevel(web[url[w]])

\* C10, the steps of a worker on such a page: analyze_page returns two
\* empty lists; the publishing step leaves queue_writer as it is, the
\* enqueueing step leaves queue as it is (the page is not retried), and
\* the last step marks the task done and takes the worker back to get.
C10_Step(w) ==
    /\ (pc[w] = "fetch" /\ fetched'[w] = "ok" /\ NoLevel(web[url[w]])) =>
          /\ pc'[w] = "publish"
          /\ divisions'[w] = <<>>
          /\ subpages'[w] = <<>>
    /\ (C10_Leaf(w) /\ pc[w] = "publish" /\ pc'[w] # "publish") =>
          /\ pc'[w] = "enqueue"
          /\ queue_writer' = queue_writer
          /\ published' = published
    /\ (C10_Leaf(w) /\ pc[w] = "enqueue" /\ pc'[w] # "enqueue") =>
          /\ pc'[w] = "done"
          /\ queue' = queue
          /\ nput' = nput
          /\ qUnfinished' = qUnfinished
    /\ (C10_Leaf(w) /\ pc[w] = "done" /\ pc'[w] # "done") =>
          /\ pc'[w] = "get"
          /\ qUnfinished' = qUnfinished - 1
          /\ CopiesIn(url[w], ndone') = CopiesIn(url[w], ndone) + 1
          /\ queue' = queue

\* C10: a page fetched with success that matches no level markup gives an
\* empty list of divisions and an empty list of subpages; the worker then
\* publishes nothing, enqueues nothing (no retry of the page), marks the
\* task done and is back at queue.get().
C10_LeafPage == [][\A w \in Workers : C10_Step(w)]_vars

\* C10's case: the leaf page of the chain was fetched once, never put
\* back, and marked done, and its worker waits at queue.get() again.
C10_Witness ==
    /\ web = ChainSite
    /\ CopiesIn(U1101, ndone) = 1
    /\ CopiesIn(U1101, nget) = 1
    /\ CopiesIn(U1101, nput) = 1
    /\ budget = MaxFaults
    /\ \E w \in Workers : pc[w] = "get"
    /\ \A w \in Workers : pc[w] \in {"get", "none"}

\* C11, the steps of a worker whose fetch came to a ClientError or to a
\* rate-limited body, in their order: the fetch takes it into the sleep (5
\* or 60 seconds) with queue as it was; the end of the sleep and the
\* publishing step leave queue as it was; the enqueueing step appends the
\* same url to queue and counts it; the last step marks the task done.
C11_Step(w) ==
    /\ (pc[w] = "fetch" /\ fetched'[w] \in Recoverable) =>
          /\ pc'[w] = "sleep"
          /\ backoff'[w] = (IF fetched'[w] = "client_error" THEN 5 ELSE 60)
          /\ url'[w] = url[w]
          /\ queue' = queue
          /\ qUnfinished' = qUnfinished
    /\ (fetched[w] \in Recoverable /\ pc[w] = "sleep" /\ pc'[w] # "sleep") =>
          /\ pc'[w] = "publish"
          /\ url'[w] = url[w]
          /\ queue' = queue
          /\ qUnfinished' = qUnfinished
    /\ (fetched[w] \in Recoverable /\ pc[w] = "publish" /\ pc'[w] # "publish") =>
          /\ pc'[w] = "enqueue"
          /\ url'[w] = url[w]
          /\ queue' = queue
          /\ qUnfinished' = qUnfinished
    /\ (fetched[w] \in Recoverable /\ pc[w] = "enqueue" /\ pc'[w] # "enqueue") =>
          /\ pc'[w] = "done"
          /\ queue' = Append(queue, url[w])
          /\ qUnfinished' = qUnfinished + 1
    /\ (fetched[w] \in Recoverable /\ pc[w] = "done" /\ pc'[w] # "done") =>
          /\ pc'[w] = "get"
          /\ queue' = queue
          /\ qUnfinished' = qUnfinished - 1
          /\ CopiesIn(url[w], ndone') = CopiesIn(url[w], ndone) + 1

\* C11, the failed url is never lost: a url leaves queue only by being
\* handed to a worker (queue holds every put not yet matched by a get) and
\* a worker keeps what it was handed until it marks it done; until the
\* failed url is put back the worker that sleeps holds it, as the one
\* subpage it is going to put; once the worker is about to mark its task
\* done the url has been put a second time.
C11_NeverLost ==
    /\ \A u \in BagToSet(nput) :
          /\ Count(queue, u) = CopiesIn(u, nput) - CopiesIn(u, nget)
          /\ Cardinality({w \in Workers : url[w] = u})
                 = CopiesIn(u, nget) - CopiesIn(u, ndone)
    /\ \A w \in Workers :
          (fetched[w] \in Recoverable /\ pc[w] \in {"sleep", "publish", "enqueue"}) =>
              /\ url[w] # NoUrl
              /\ subpages[w] = <<url[w]>>
    /\ \A w \in Workers :
          (fetched[w] \in Recoverable /\ pc[w] = "done") =>
              CopiesIn(url[w], nput) >= 2

\* C11: after a ClientError or a rate-limited body the worker first waits
\* the backoff, then puts the same url back on queue, then marks its task
\* done; the url cannot be dequeued before the backoff is over, and from
\* the failure on it is with the worker that backs off or in queue (until
\* a worker takes it from there again).
C11_BackoffOrder == [][\A w \in Workers : C11_Step(w)]_vars /\ []C11_NeverLost

\* C11's case: a worker whose fetch raised ClientError has slept and put
\* the url back, and has not marked its task done; another worker has
\* already taken the url from queue again.
C11_Witness ==
    \E w, v \in Workers :
        /\ w # v
        /\ fetched[w] = "client_error"
        /\ pc[w] = "done"
        /\ url[v] = url[w]
        /\ pc[v] = "fetch"
        /\ CopiesIn(url[w], nput) = 2

\* C12, the steps of a worker on a body fetched with success: analyze_page
\* returns what the page holds; the publishing step puts every division on
\* queue_writer, in order; the enqueueing step puts every subpage on queue,
\* in order; only the step after these marks the task done.
C12_Step(w) ==
    /\ (pc[w] = "fetch" /\ fetched'[w] = "ok" /\ pc'[w] = "publish") =>
          /\ divisions'[w] = Extract(web[url[w]], url[w]).divisions
          /\ subpages'[w] = Extract(web[url[w]], url[w]).subpages
    /\ (fetched[w] = "ok" /\ pc[w] = "publish" /\ pc'[w] # "publish") =>
          /\ pc'[w] = "enqueue"
          /\ queue_writer' = queue_writer \o divisions[w]
          /\ published' = published (+) SeqToBag(divisions[w])
          /\ divisions'[w] = <<>>
          /\ qUnfinished' = qUnfinished
    /\ (fetched[w] = "ok" /\ pc[w] = "enqueue" /\ pc'[w] # "enqueue") =>
          /\ pc'[w] = "done"
          /\ queue' = queue \o subpages[w]
          /\ subpages'[w] = <<>>
          /\ qUnfinished' = qUnfinished + Len(subpages[w])
    /\ (fetched[w] = "ok" /\ pc[w] = "done" /\ pc'[w] # "done") =>
          /\ pc'[w] = "get"
          /\ qUnfinished' = qUnfinished - 1

\* C12, once the join on queue has completed: no worker holds a division
\* or a subpage it has not put, none is between get and task_done, and
\* every division published is in queue_writer, with the writer, or
\* written.
C12_AtJoin ==
    dpc # "join_queue" =>
        /\ \A w \in Workers :
              /\ divisions[w] = <<>>
              /\ subpages[w] = <<>>
              /\ pc[w] \in {"get", "none"}
        /\ BagCardinality(published)
              = Len(queue_writer) + (IF wpc = "row" THEN 1 ELSE 0) + Len(DataRows)

\* C12, after the join on queue has completed nothing is published.
C12_NoLatePublish ==
    dpc # "join_queue" => (published' = published /\ dpc' # "join_queue")

\* C12: on a body fetched with success the worker puts every extracted
\* division on queue_writer and every subpage on queue before it marks the
\* url done; so when the join on queue completes every division extracted
\* in the crawl is in queue_writer or written, and none is published
\* later.
C12_PublishBeforeDone ==
    /\ [][\A w \in Workers : C12_Step(w)]_vars
    /\ []C12_AtJoin
    /\ [][C12_NoLatePublish]_vars

\* C12's case: the join on queue has completed after two or more divisions
\* were published, and some of them still wait in queue_writer.
C12_Witness ==
    /\ dpc = "join_writer"
    /\ BagCardinality(published) >= 2
    /\ queue_writer # <<>>
    /\ \A w \in Workers : pc[w] \in {"get", "none"}

\* The rows the writer makes of a sequence of divisions.
RowsOf(ds) == [i \in 1..Len(ds) |-> Row(ds[i])]

\* The divisions put on queue_writer and not yet written, oldest first:
\* the one the writer holds, then those that wait.
Pending == (IF wpc = "row" THEN <<division>> ELSE <<>>) \o queue_writer

\* The rows of every division ever put on queue_writer, in the order of
\* the puts: those written, then those of the pending divisions.
PutOrder == DataRows \o RowsOf(Pending)

\* C13, the steps: the order of the puts changes only by a worker's
\* publishing step, which appends; the writer takes the oldest division
\* that waits, one at a time, and its next step appends that division's
\* row to the file and only then marks it done.
C13_Step ==
    /\ \/ <<csvfile, division, queue_writer>>' = <<csvfile, division, queue_writer>>
       \/ PutOrder' = PutOrder
       \/ \E w \in Workers :
             pc[w] = "publish" /\ PutOrder' = PutOrder \o RowsOf(divisions[w])
    /\ (wpc = "get" /\ wpc' # "get") =>
          /\ wpc' = "row"
          /\ division' = Head(queue_writer)
          /\ queue_writer' = Tail(queue_writer)
          /\ csvfile' = csvfile
          /\ wUnfinished' = wUnfinished
    /\ (wpc = "row" /\ wpc' # "row") =>
          /\ wpc' = "get"
          /\ csvfile' = Append(csvfile, Row(division))
          /\ wUnfinished' = wUnfinished - 1

\* C13, in every state: a division counts as unfinished until its row is
\* written, so when the join on queue_writer has completed the row of
\* every division the writer took is in the file.
C13_DoneAfterRow ==
    /\ wUnfinished = Len(Pending)
    /\ Len(DataRows) = BagCardinality(published) - wUnfinished
    /\ dpc = "returned" => (Pending = <<>> /\ Len(DataRows) = BagCardinality(published))

\* C13: the writer writes the rows in the order in which the divisions
\* were put on queue_writer, one at a time, and marks a division done only
\* when its row is written; so the join on queue_writer completing means
\* that the row of every division taken from it is written.
C13_Fifo == [][C13_Step]_vars /\ []C13_DoneAfterRow

\* C13's case: the writer is in the middle of the stream: a row is
\* written, the writer holds the next division and a third one waits.
C13_Witness ==
    /\ wpc = "row"
    /\ Len(DataRows) >= 1
    /\ queue_writer # <<>>
    /\ Row(division) # Row(queue_writer[1])

RECURSIVE LinksInto(_, _, _, _)
\* The sum, over the pages p of set `pages`, of the number of links from p
\* to v times f[p].
LinksInto(site, pages, v, f) ==
    IF pages = {} THEN 0
    ELSE LET p == CHOOSE x \in pages : TRUE
         IN  Count(ChildLinks(site, p), v) * f[p]
             + LinksInto(site, pages \ {p}, v, f)

RECURSIVE PathsWithin(_, _)
\* For every page, the number of distinct link paths of at most d links
\* that lead from the root to it.
PathsWithin(site, d) ==
    IF d = 0 THEN [v \in DOMAIN site |-> IF v = TopUrl THEN 1 ELSE 0]
    ELSE [v \in DOMAIN site |->
             IF v = TopUrl THEN 1
             ELSE LinksInto(site, DOMAIN site, v, PathsWithin(site, d - 1))]

\* The number of distinct link paths from the root to page v.
Paths(site, v) == PathsWithin(site, MaxDepth)[v]

\* C14: there is no seen-set. When a crawl without faults of an acyclic
\* site has returned, every page was dequeued and processed once for each
\* distinct link path from the root to it and its rows were written each
\* time; the page of the diamond that two links lead to was processed
\* twice and its row is in the file twice.
C14_OncePerPath ==
    dpc = "returned" =>
        /\ \A u \in DOMAIN web :
              /\ CopiesIn(u, nget) = Paths(web, u)
              /\ CopiesIn(u, ndone) = Paths(web, u)
        /\ t_scanned = BagCardinality(nget)
        /\ SeqToBag(DataRows) = CrawlRows(web, {}, TopUrl, MaxDepth)
        /\ web = DagSite =>
              /\ CopiesIn(U1101, nget) = 2
              /\ Count(DataRows, <<C1102, NameX, "county">>) = 2

\* C14's case: the crawl of the diamond has returned; its county page was
\* put on queue by two links of the city page and dequeued twice.
C14_Witness ==
    /\ dpc = "returned"
    /\ web = DagSite
    /\ Paths(web, U1101) = 2
    /\ CopiesIn(U1101, nput) = 2
    /\ CopiesIn(U1101, ndone) = 2
    /\ Len(DataRows) = 5

\* C15, in every state: a url was handed out at most as often as it was
\* put, and what was put and not handed out waits in queue; the workers
\* that hold a url are as many as the gets not yet marked done, and never
\* more than the pool size; every division published is in exactly one
\* place, queue_writer, the writer's hands or the file, and nothing waits
\* for the writer but published divisions.
C15_Owned ==
    /\ \A u \in BagToSet(nput) \cup BagToSet(nget) :
          /\ CopiesIn(u, nget) <= CopiesIn(u, nput)
          /\ Count(queue, u) = CopiesIn(u, nput) - CopiesIn(u, nget)
    /\ Cardinality(Holding) = BagCardinality(nget) - BagCardinality(ndone)
    /\ Cardinality(Holding) <= ntasks
    /\ \A w \in Workers : (pc[w] \in {"get", "none"}) <=> (url[w] = NoUrl)
    /\ Len(DataRows) + Len(Pending) = BagCardinality(published)
    /\ \A i \in 1..Len(Pending) : BagIn(Pending[i], published)

\* C15, the steps that take an item: a get hands the head of queue to
\* exactly one worker, which held none, and removes it from queue; the
\* writer's get hands the head of queue_writer to the writer, which held
\* none, and removes it.
C15_Step ==
    /\ Len(queue') < Len(queue) =>
          /\ queue' = Tail(queue)
          /\ \E w \in Workers :
                /\ url[w] = NoUrl
                /\ url'[w] = Head(queue)
                /\ \A v \in Workers \ {w} : url'[v] = url[v]
    /\ Len(queue_writer') < Len(queue_writer) =>
          /\ queue_writer' = Tail(queue_writer)
          /\ division = NoDivision
          /\ division' = Head(queue_writer)

\* C15: every item has one owner at a time. A url put on queue is handed
\* to at most one worker; a worker holds at most one url between its get
\* and its task_done, so the urls in flight are never more than the pool
\* size; and every division published is taken by the writer exactly
\* once.
C15_OneOwner == []C15_Owned /\ [][C15_Step]_vars

\* C15's case: a pool of two, each worker holding a url of its own, while
\* the writer holds a division.
C15_Witness ==
    /\ ntasks = 2
    /\ Cardinality(Holding) = 2
    /\ url[1] # url[2]
    /\ wpc = "row"
    /\ \A w \in Workers : pc[w] # "raised"

\* The class of the rows of the k-th level.
LevelClass(k) ==
    <<"provincetr", "citytr", "countytr", "towntr", "villagetr">>[k]

\* The levels, in the fixed order, of which the page has a row.
LevelsOn(html) ==
    {k \in 1..5 : \E i \in 1..Len(html.trs) : html.trs[i].cls = LevelClass(k)}

\* The page without its rows of a level other than the k-th.
OnlyLevel(html, k) ==
    Html(html.marker,
         SelectSeq(html.trs,
                   LAMBDA tr : tr.cls = LevelClass(k)
                               \/ \A j \in 1..5 : tr.cls # LevelClass(j)))

\* A worker has fetched a page with success and analyze_page has returned.
Extracted(w) == pc[w] = "publish" /\ fetched[w] = "ok"

\* C16: analyze_page uses the first level, in the order province, city,
\* county, town, village, of which the page has a row, and only that one:
\* it returns what it returns for the page without the rows of all other
\* levels, one division for each row of that level (for each cell, at the
\* province level), every division with that level; without a row of any
\* level it returns nothing.
C16_FirstLevelOnly ==
    \A w \in Workers :
        Extracted(w) =>
            LET html == web[url[w]]
            IN  IF LevelsOn(html) = {}
                THEN divisions[w] = <<>> /\ subpages[w] = <<>>
                ELSE LET k == Min(LevelsOn(html))
                         rows == SelectSeq(html.trs, LAMBDA tr : tr.cls = LevelClass(k))
                     IN  /\ \A i \in 1..Len(divisions[w]) :
                               divisions[w][i][3]
                                   = <<"province", "city", "county", "town", "village">>[k]
                         /\ Len(divisions[w])
                               = (IF k = 1 THEN Len(CellsTo(rows, Len(rows))) ELSE Len(rows))
                         /\ divisions[w] = Extract(OnlyLevel(html, k), url[w]).divisions
                         /\ subpages[w] = Extract(OnlyLevel(html, k), url[w]).subpages

\* C16's case: a page whose first row is a town row and whose second is a
\* city row was extracted: one division, of level city.
C16_Witness ==
    \E w \in Workers :
        /\ Extracted(w)
        /\ Len(web[url[w]].trs) = 2
        /\ web[url[w]].trs[1].cls = "towntr"
        /\ web[url[w]].trs[2].cls = "citytr"
        /\ Len(divisions[w]) = 1
        /\ divisions[w][1][3] = "city"

\* The rows of the level analyze_page uses on a page that has a level.
UsedRows(html) ==
    SelectSeq(html.trs, LAMBDA tr : tr.cls = LevelClass(Min(LevelsOn(html))))

\* The rows among these whose first cell holds a link with a target that
\* is not empty.
LinkedRows(html) ==
    SelectSeq(UsedRows(html),
              LAMBDA tr : tr.tds[1].hasA /\ tr.tds[1].hasHref /\ tr.tds[1].href # <<>>)

\* A page whose first level present is not the province level.
BelowProvince(html) == LevelsOn(html) # {} /\ Min(LevelsOn(html)) > 1

\* C17: for a page matched at a level other than province, every matched
\* row gives exactly one division, its code the text of the row's first
\* cell and its name the text of its last; the subpages are, in order, the
\* links of the rows whose first cell holds a link with a target that is
\* not empty, so they are never more than the divisions; and after the
\* worker's enqueueing step queue has got one url for each such row and
\* none for a row without link.
C17_RowRecords ==
    \A w \in Workers :
        /\ (Extracted(w) /\ BelowProvince(web[url[w]])) =>
              LET rows == UsedRows(web[url[w]])
                  links == LinkedRows(web[url[w]])
              IN  /\ Len(divisions[w]) = Len(rows)
                  /\ \A i \in 1..Len(rows) :
                        /\ divisions[w][i][1] = rows[i].tds[1].text
                        /\ divisions[w][i][2] = rows[i].tds[Len(rows[i].tds)].text
                  /\ Len(subpages[w]) = Len(links)
                  /\ \A j \in 1..Len(links) :
                        subpages[w][j] = TopUrl \o links[j].tds[1].href
                  /\ Len(subpages[w]) <= Len(divisions[w])
        /\ (fetched[w] = "ok" /\ pc[w] = "done" /\ url[w] = TopUrl
               /\ BelowProvince(web[TopUrl])) =>
              /\ BagCardinality(nput) = 1 + Len(LinkedRows(web[TopUrl]))
              /\ Len(queue) = Len(LinkedRows(web[TopUrl]))
              /\ BagCardinality(published) = Len(UsedRows(web[TopUrl]))

\* C17's case: a page of two rows of one level, the first with a link in
\* its first cell and the second without an <a>, has been processed: two
\* divisions published, one url put on queue.
C17_Witness ==
    \E w \in Workers :
        /\ fetched[w] = "ok"
        /\ pc[w] = "done"
        /\ url[w] = TopUrl
        /\ BelowProvince(web[TopUrl])
        /\ Len(UsedRows(web[TopUrl])) = 2
        /\ HasLink(UsedRows(web[TopUrl])[1].tds[1])
        /\ ~UsedRows(web[TopUrl])[2].tds[1].hasA
        /\ BagCardinality(published) = 2
        /\ Len(queue) = 1

\* The pages of a site on which the extraction raises.
MalformedPages(site) == {u \in DOMAIN site : Extract(site[u], u).raised}

\* C18, in every state: a worker task that ended on an exception holds
\* the url it had dequeued, never marked done; the unfinished counter of
\* queue is above zero and run_queue waits in its first join.
C18_Unfinished ==
    \A w \in Workers :
        pc[w] = "raised" =>
            /\ url[w] \in MalformedPages(web)
            /\ CopiesIn(url[w], ndone) < CopiesIn(url[w], nget)
            /\ qUnfinished >= 1
            /\ dpc = "join_queue"

\* C18, in every step: a worker task that has ended stays ended, and
\* nothing marks its url done.
C18_StaysEnded ==
    \A w \in Workers :
        pc[w] = "raised" =>
            /\ pc'[w] = "raised"
            /\ url'[w] = url[w]
            /\ CopiesIn(url[w], ndone') = CopiesIn(url[w], ndone)
            /\ qUnfinished' >= 1
            /\ dpc' = "join_queue"

\* C18, what the crawl comes to: on a site with a malformed page a worker
\* task ends on it; with a second worker in the pool every other url (the
\* root, the first province page and the page it links to) is processed
\* and the three rows are written, and run_queue still waits.
C18_OthersProcessed ==
    /\ MalformedPages(web) # {} => \E w \in Workers : pc[w] = "raised"
    /\ (web = BadSite /\ ntasks >= 2) =>
          /\ queue = <<>>
          /\ \A u \in {TopUrl, U11, U1101} : CopiesIn(u, ndone) = 1
          /\ CopiesIn(U12, ndone) = 0
          /\ Len(DataRows) = 3
          /\ qUnfinished = 1
          /\ dpc = "join_queue"

\* C18: when the extraction raises on a malformed page (a matched row
\* without cells, a province cell without link), the worker task ends
\* without task_done for the url it dequeued; the unfinished counter of
\* queue stays above zero for ever and run_queue never returns, also when
\* the remaining workers process every other url.
C18_RaiseHangs ==
    /\ []C18_Unfinished
    /\ [][C18_StaysEnded]_vars
    /\ <>[]C18_OthersProcessed

\* C18's case: in a pool of two, one worker has ended on the city page
\* with a row without cells; the other has processed all other urls, the
\* rows are written and queue is empty, and run_queue waits in its first
\* join with one url unfinished.
C18_Witness ==
    /\ web = BadSite
    /\ ntasks = 2
    /\ \E w \in Workers : pc[w] = "raised" /\ url[w] = U12
    /\ \E w \in Workers : pc[w] = "get"
    /\ queue = <<>>
    /\ Len(DataRows) = 3
    /\ qUnfinished = 1
    /\ dpc = "join_queue"

\* C19, in every state of a crawl with a pool size of zero or less: there
\* is no worker task, the root url waits in queue, never dequeued, and
\* run_queue waits in its first join.
C19_NoWorker ==
    ntasks <= 0 =>
        /\ \A w \in Workers : pc[w] = "none"
        /\ queue = <<TopUrl>>
        /\ nget = EmptyBag
        /\ qUnfinished = 1
        /\ t_scanned = 0
        /\ DataRows = <<>>
        /\ dpc = "join_queue"

\* C19, what a crawl without faults comes to: run_queue has returned if
\* and only if the pool size is at least one.
C19_ReturnsIffPool == (dpc = "returned") <=> (ntasks >= 1)

\* C19: the pool size is not validated. With a pool size of zero or less
\* no worker is created, the root url is never dequeued and the join on
\* queue never completes; a crawl without faults of a finite site
\* terminates exactly when the pool size is at least one.
C19_PoolSize == []C19_NoWorker /\ <>[]C19_ReturnsIffPool

\* C19's case: run_queue was called with ntasks = 0; the writer has opened
\* the file and written the header and waits, and nothing else can happen.
C19_Witness ==
    /\ ntasks = 0
    /\ wpc = "get"
    /\ csvfile = <<Header>>
    /\ queue = <<TopUrl>>
    /\ dpc = "join_queue"
    /\ \A w \in Workers : ~ENABLED Get(w)

\* C20, in every state: t_scanned is the number of task_done calls on
\* queue and t_saved the number of rows written; when run_queue has
\* returned t_scanned is the number of urls dequeued, which is the number
\* of pages of the site plus the number of fetches that failed and were
\* retried.
C20_Counts ==
    /\ t_scanned = BagCardinality(ndone)
    /\ t_saved = Len(DataRows)
    /\ dpc = "returned" =>
          /\ t_scanned = BagCardinality(nget)
          /\ t_scanned = Cardinality(DOMAIN web) + (MaxFaults - budget)

\* C20, in every step: neither counter decreases; t_scanned grows, by one,
\* exactly in the step in which a worker marks its url done, whatever the
\* fetch came to, and t_saved, by one, exactly in the step in which the
\* writer writes a row.
C20_Step ==
    /\ t_scanned' >= t_scanned
    /\ t_saved' >= t_saved
    /\ (\E w \in Workers : pc[w] = "done" /\ pc'[w] # "done")
          <=> (t_scanned' = t_scanned + 1)
    /\ (t_scanned' # t_scanned) => (qUnfinished' = qUnfinished - 1)
    /\ (wpc = "row" /\ wpc' # "row") <=> (t_saved' = t_saved + 1)
    /\ (t_saved' # t_saved) => (Len(csvfile') = Len(csvfile) + 1)

\* C20: the two progress counters never decrease; t_scanned is incremented
\* once for every url dequeued, right before its task_done, so it equals
\* the number of task_done calls on queue and counts every failed fetch
\* that is retried as a page scanned (at the end: the pages plus the
\* retries); t_saved equals the number of rows written.
C20_Counters == []C20_Counts /\ [][C20_Step]_vars

\* C20's case: run_queue has returned from a crawl in which MaxFaults
\* fetches failed and were retried; t_scanned is the number of pages plus
\* MaxFaults.
C20_Witness ==
    /\ dpc = "returned"
    /\ budget = 0
    /\ t_scanned = Cardinality(DOMAIN web) + MaxFaults
    /\ t_saved = Len(DataRows)
    /\ t_saved >= 2

=============================================================================
